---- MODULE Spec2Model ----
(***************************************************************************)
(* Lite2D layer system: Layer.render scopes a camera transform around the  *)
(* traversal of its children with a ctx.save()/ctx.restore() pair.         *)
(* Layer is modelled from src/src/core/Layer.ts.  GameObject, Scene and    *)
(* Camera are collaborators whose code is outside src/; they are modelled  *)
(* from spec.md and the Layer documentation (src/unnamed/part_000).        *)
(***************************************************************************)
EXTENDS Integers, Sequences, FiniteSets, TLC

\* ------------------------------------------------------------------------
\* Bounds of the model
\* ------------------------------------------------------------------------
MaxEdits == 2       \* layers added plus attributes away from their defaults
MaxDepth == 2       \* a pass starts only while fewer states than this are saved

\* ------------------------------------------------------------------------
\* Identities
\* ------------------------------------------------------------------------
Scene == 0          \* the traversal root
World == 1          \* scene.world
UI == 2             \* scene.ui
Extra == 3          \* a layer the application creates
ObjA == 4           \* a plain GameObject
ObjB == 5           \* another plain GameObject
WorldOrder == 0
UIOrder == 1000
BackOrder == -100

Layers == {World, UI, Extra}
Objects == {ObjA, ObjB}
Nodes == Layers \cup Objects
Parents == {Scene} \cup Layers
Orders == {BackOrder, WorldOrder, UIOrder}

None == "none"
Primary == "primary"
Minimap == "minimap"
Cameras == {Primary, Minimap}

VARIABLES
    added,          \* added[p]: the children of p in the order they were added
    sortingOrder,   \* GameObject.sortingOrder
    active,         \* GameObject.active
    camera,         \* Layer._camera
    ctx,            \* CanvasRenderingContext2D: current transform + save stack
    log,            \* the context and draw calls of the most recent pass
    last            \* the operation that produced this state

vars == <<added, sortingOrder, active, camera, ctx, log, last>>

\* ------------------------------------------------------------------------
\* Camera and drawing context
\* ------------------------------------------------------------------------
\* A transform is uniform scale a followed by translation (e, f).
Identity == [a |-> 1, e |-> 0, f |-> 0]

\* current * m, as ctx.translate/ctx.scale post-multiply the current matrix
Compose(cur, m) ==
    [a |-> cur.a * m.a, e |-> cur.a * m.e + cur.e, f |-> cur.a * m.f + cur.f]

\* the transform a camera computes from its position, zoom and viewport
CameraTransform(cam) ==
    IF cam = Primary THEN [a |-> 2, e |-> 3, f |-> 1]
    ELSE [a |-> 3, e |-> 0 - 2, f |-> 5]

Depth(c) == Len(c.stack)

Event(op, n, c) == [op |-> op, n |-> n, t |-> c.cur, d |-> Depth(c)]

Note(op, n, c) == [c EXCEPT !.log = Append(@, Event(op, n, c))]

\* ctx.save(): push the current state
CtxSave(c) == [c EXCEPT !.stack = Append(@, c.cur)]

\* ctx.restore(): pop the most recently saved state; nothing if none is saved
CtxRestore(c) ==
    IF c.stack = <<>> THEN c
    ELSE [c EXCEPT !.cur = c.stack[Len(c.stack)],
                   !.stack = SubSeq(c.stack, 1, Len(c.stack) - 1)]

\* camera.applyTransform(ctx)
ApplyTransform(cam, c) == [c EXCEPT !.cur = Compose(c.cur, CameraTransform(cam))]

\* ------------------------------------------------------------------------
\* GameObject: children sorted by sortingOrder, ties in insertion order
\* ------------------------------------------------------------------------
RECURSIVE InsertSorted(_, _)
InsertSorted(s, x) ==
    IF s = <<>> THEN <<x>>
    ELSE IF sortingOrder[x] < sortingOrder[Head(s)] THEN <<x>> \o s
    ELSE <<Head(s)>> \o InsertSorted(Tail(s), x)

RECURSIVE StableSort(_)
StableSort(s) ==
    IF s = <<>> THEN <<>>
    ELSE InsertSorted(StableSort(SubSeq(s, 1, Len(s) - 1)), s[Len(s)])

\* this.children
Children(p) == StableSort(added[p])

Range(s) == {s[i] : i \in 1..Len(s)}

Exists(n) == \E p \in Parents : n \in Range(added[p])

ParentOf(n) == CHOOSE p \in Parents : n \in Range(added[p])

\* ------------------------------------------------------------------------
\* Layer (src/src/core/Layer.ts)
\* ------------------------------------------------------------------------
LayerConstructorIgnoresCamera(cam) == None

\* constructor(name, camera = null): the new layer's _camera
LayerConstructor(cam) == cam

SetCameraFieldIgnored(n, value) == camera

\* set camera(value)
SetCameraField(n, value) == [camera EXCEPT ![n] = value]

\* get camera()
GetCamera(n) == camera[n]

LayerIsActiveAlways(n) == TRUE

\* if (!this.active) return;
LayerIsActive(n) == active[n]

LayerSaveTwice(n, c) == Note("save", n, CtxSave(Note("save", n, CtxSave(c))))

\* ctx.save();
LayerSave(n, c) == Note("save", n, CtxSave(c))

LayerApplyCameraSkipped(n, c) == c

\* if (this._camera) { this._camera.applyTransform(ctx); }
LayerApplyCamera(n, c) ==
    IF camera[n] # None
    THEN Note("apply", n, ApplyTransform(camera[n], c))
    ELSE c

\* if (child.active)
ChildIsRendered(child) == active[child]

ChildAtReversed(s, i) == s[Len(s) + 1 - i]

\* for (const child of this.children)
ChildAt(s, i) == s[i]

LayerRestoreKeepsTransform(n, c) ==
    Note("restore", n, [c EXCEPT !.stack = SubSeq(c.stack, 1, Len(c.stack) - 1)])

\* ctx.restore();
LayerRestore(n, c) == Note("restore", n, CtxRestore(c))

\* GameObject.render of a plain object: draws under the current transform,
\* or raises when the object is one whose draw fails in this pass
ObjectRender(n, c) ==
    IF n \in c.bad
    THEN [Note("throw", n, c) EXCEPT !.err = TRUE]
    ELSE Note("draw", n, c)

RECURSIVE LayerRender(_, _)
RECURSIVE RenderChildren(_, _, _)

\* the loop over children; an error raised by a child leaves the loop
RenderChildren(s, i, c) ==
    IF i > Len(s) \/ c.err THEN c
    ELSE LET child == ChildAt(s, i)
             c1 == IF ~ChildIsRendered(child) THEN c
                   ELSE IF child \in Layers THEN LayerRender(child, c)
                   ELSE ObjectRender(child, c)
         IN RenderChildren(s, i + 1, c1)

\* Layer.render(ctx); an error raised inside the loop leaves render before
\* ctx.restore() is reached
LayerRender(n, c) ==
    IF ~LayerIsActive(n) THEN c
    ELSE LET c1 == LayerSave(n, c)
             c2 == LayerApplyCamera(n, c1)
             c3 == RenderChildren(Children(n), 1, c2)
         IN IF c3.err THEN c3 ELSE LayerRestore(n, c3)

\* Scene.render(ctx): the top-level children in sortingOrder
SceneRender(c) == RenderChildren(Children(Scene), 1, c)

\* ------------------------------------------------------------------------
\* Initial state: new Scene(name, 800, 600)
\* ------------------------------------------------------------------------
Init ==
    /\ added = [p \in Parents |-> IF p = Scene THEN <<World, UI>> ELSE <<>>]
    /\ sortingOrder = [n \in Nodes |-> IF n = UI THEN UIOrder ELSE WorldOrder]
    /\ active = [n \in Nodes |-> TRUE]
    /\ camera = [n \in Layers |->
                    IF n = World THEN LayerConstructor(Primary)
                    ELSE LayerConstructor(None)]
    /\ ctx = [cur |-> Identity, stack |-> <<>>]
    /\ log = <<>>
    /\ last = [op |-> "newScene"]

\* ------------------------------------------------------------------------
\* Operations
\* ------------------------------------------------------------------------
FreshLayer == CHOOSE n \in Layers : ~Exists(n) /\ \A m \in Layers : m < n => Exists(m)
FreshObject == CHOOSE n \in Objects : ~Exists(n) /\ \A m \in Objects : m < n => Exists(m)
HasFreshLayer == \E n \in Layers : ~Exists(n)
HasFreshObject == \E n \in Objects : ~Exists(n)

\* no error has escaped the most recent operation
Running == ~(last.op = "render" /\ last.err)

\* the object whose draw raised in the pass that has just failed
Thrower == log[Len(log)].n

DefaultOrder(n) == IF n = UI THEN UIOrder ELSE WorldOrder

\* how far a scene is from the freshly constructed one
Edits(a, so, act, cam) ==
    LET present == UNION {Range(a[p]) : p \in Parents}
    IN Cardinality((present \cap Layers) \ {World, UI})
       + Cardinality({n \in present : so[n] # DefaultOrder(n)})
       + Cardinality({n \in present : ~act[n]})
       + (IF cam[World] # Primary THEN 1 ELSE 0)
       + (IF cam[UI] # None THEN 1 ELSE 0)

\* the scene is edited between passes that returned
Mutated(op) ==
    /\ Running
    /\ Edits(added', sortingOrder', active', camera') <= MaxEdits
    /\ last' = op
    /\ log' = <<>>
    /\ ctx' = ctx

\* new Layer(name, cam); layer.sortingOrder = order; p.addChild(layer)
NewLayer(p, n, cam, order) ==
    /\ added' = [added EXCEPT ![p] = Append(@, n)]
    /\ camera' = [camera EXCEPT ![n] = LayerConstructor(cam)]
    /\ sortingOrder' = [sortingOrder EXCEPT ![n] = order]
    /\ active' = active

\* scene.createWorldLayer(name, order)
CreateWorldLayer(order) ==
    /\ HasFreshLayer
    /\ NewLayer(Scene, FreshLayer, Primary, order)
    /\ Mutated([op |-> "edit"])

\* scene.createUILayer(name, order)
CreateUILayer(order) ==
    /\ HasFreshLayer
    /\ NewLayer(Scene, FreshLayer, None, order)
    /\ Mutated([op |-> "edit"])

\* layer.addChild(new Layer(name, cam))
AddLayer(p, cam) ==
    /\ HasFreshLayer
    /\ Exists(p)
    /\ NewLayer(p, FreshLayer, cam, WorldOrder)
    /\ Mutated([op |-> "edit"])

\* layer.addChild(new GameObject(name))
AddObject(p) ==
    /\ HasFreshObject
    /\ Exists(p)
    /\ added' = [added EXCEPT ![p] = Append(@, FreshObject)]
    /\ UNCHANGED <<sortingOrder, active, camera>>
    /\ Mutated([op |-> "edit"])

\* node.sortingOrder = order
SetSortingOrder(n, order) ==
    /\ Exists(n)
    /\ sortingOrder' = [sortingOrder EXCEPT ![n] = order]
    /\ UNCHANGED <<added, active, camera>>
    /\ Mutated([op |-> "edit"])

\* node.active = b
SetActive(n, b) ==
    /\ Exists(n)
    /\ active' = [active EXCEPT ![n] = b]
    /\ UNCHANGED <<added, sortingOrder, camera>>
    /\ Mutated([op |-> "edit"])

\* layer.camera = value
SetCamera(n, value) ==
    /\ Exists(n)
    /\ camera' = SetCameraField(n, value)
    /\ UNCHANGED <<added, sortingOrder, active>>
    /\ Mutated([op |-> "setCamera", n |-> n, value |-> value])

PassFrom(target, c) == IF target = Scene THEN SceneRender(c) ELSE LayerRender(target, c)

\* target.render(ctx), target the scene or a layer; bad is the set of objects
\* whose draw raises in this pass.  Passes that follow one another without an
\* edit in between are the frame loop's: they render the same root, and after
\* a pass that failed the caller, having caught the error, renders again with
\* the same object failing.
Render(target, bad) ==
    /\ Depth(ctx) < MaxDepth
    /\ target = Scene \/ Exists(target)
    /\ last.op = "render" => target = last.target
    /\ ~Running => bad = {Thrower}
    /\ \A o \in bad : Exists(o)
    /\ \E r \in {PassFrom(target, [cur |-> ctx.cur, stack |-> ctx.stack,
                                     log |-> <<>>, err |-> FALSE, bad |-> bad])} :
          /\ ctx' = [cur |-> r.cur, stack |-> r.stack]
          /\ log' = r.log
          /\ last' = [op |-> "render", target |-> target, entry |-> ctx,
                      err |-> r.err]
    /\ UNCHANGED <<added, sortingOrder, active, camera>>

\* the draws that raise in a pass: none, or that of ObjA
Failing == {{}, {ObjA}}

\* the values a node's sortingOrder is set to
OrdersOf(n) == IF n \in Layers THEN Orders ELSE {WorldOrder, UIOrder}

Next ==
    \/ \E order \in Orders : CreateWorldLayer(order)
    \/ \E order \in Orders : CreateUILayer(order)
    \/ \E p \in Layers, cam \in Cameras \cup {None} : AddLayer(p, cam)
    \/ \E p \in Layers : AddObject(p)
    \/ \E n \in Nodes : \E order \in OrdersOf(n) \ {sortingOrder[n]} : SetSortingOrder(n, order)
    \/ \E n \in Nodes : SetActive(n, ~active[n])
    \/ \E n \in Layers : \E value \in (Cameras \cup {None}) \ {camera[n]} : SetCamera(n, value)
    \/ \E target \in Parents, bad \in Failing : Render(target, bad)

Spec == Init /\ [][Next]_vars

\* ------------------------------------------------------------------------
\* Reading a pass off the log
\* ------------------------------------------------------------------------
Idx == DOMAIN log

Pass == last.op = "render"

Completed == Pass /\ ~last.err

\* m lies in the subtree rooted at n
RECURSIVE Under(_, _)
Under(m, n) == m = n \/ (m # Scene /\ Under(ParentOf(m), n))

Saved(n) == \E i \in Idx : log[i].op = "save" /\ log[i].n = n

SaveAt(n) == CHOOSE i \in Idx : log[i].op = "save" /\ log[i].n = n

\* the event with which the render of a child begins
Starts(e) == e.op \in {"draw", "throw", "save"}

StartsChildOf(e, p) == Starts(e) /\ ParentOf(e.n) = p

\* ------------------------------------------------------------------------
\* C1
\* ------------------------------------------------------------------------
\* C1: when a child's render raises inside Layer.render of an active layer,
\* the context's save stack and current transform, at the moment the error
\* reaches the caller of Layer.render, are those of the moment Layer.render
\* was entered.
C1_RestoredOnError ==
    (Pass /\ last.target \in Layers /\ last.err) => ctx = last.entry

\* ------------------------------------------------------------------------
\* C2
\* ------------------------------------------------------------------------
\* C2: every render of a direct child of a layer with a bound camera begins
\* under the camera's transform composed onto the transform Layer.render was
\* entered with; when that layer's render returns the entry transform and
\* stack depth are back, so the caller and every sibling layer start from the
\* same transform.
C2_CameraScoped ==
    \A i \in Idx :
        (log[i].op = "save" /\ camera[log[i].n] # None) =>
            LET n == log[i].n
                entry == log[i].t
                inner == Compose(entry, CameraTransform(camera[n]))
            IN /\ \A j \in Idx :
                      StartsChildOf(log[j], n) => (j > i /\ log[j].t = inner)
               /\ \A j \in Idx :
                      (log[j].op = "restore" /\ log[j].n = n) =>
                          (log[j].t = entry /\ log[j].d = log[i].d - 1)
               /\ \A j \in Idx :
                      (log[j].op = "save" /\ ParentOf(log[j].n) = ParentOf(n)) =>
                          log[j].t = entry
               /\ (n = last.target /\ ~last.err) => ctx = last.entry

\* a camera layer entered under a non-identity transform draws a child and
\* returns, and a sibling layer is rendered after it
C2_Witness ==
    \E i, j, k, l \in Idx :
        /\ log[i].op = "save" /\ camera[log[i].n] # None
        /\ log[i].t # Identity
        /\ log[j].op = "draw" /\ ParentOf(log[j].n) = log[i].n
        /\ log[k].op = "restore" /\ log[k].n = log[i].n
        /\ l > k /\ log[l].op = "draw"

\* ------------------------------------------------------------------------
\* C3
\* ------------------------------------------------------------------------
NoCameraPass == Pass /\ \A n \in Layers : Saved(n) => camera[n] = None

\* C3: rendering layers whose camera is none, nested ones included, shows
\* every node the transform the rendering was entered with and leaves the
\* context's current transform and save stack, hence its depth, exactly as
\* they were before it.
C3_NoCameraNoChange ==
    NoCameraPass =>
        /\ \A i \in Idx : log[i].t = last.entry.cur
        /\ ctx = last.entry

\* ------------------------------------------------------------------------
\* C4
\* ------------------------------------------------------------------------
\* n and every node from n up to the rendered target are active
RECURSIVE ActiveUpToTarget(_)
ActiveUpToTarget(n) ==
    /\ active[n]
    /\ n = last.target \/ ParentOf(n) = Scene \/ ActiveUpToTarget(ParentOf(n))

InactiveTargetStep ==
    (last'.op = "render" /\ last'.target \in Layers /\ ~active[last'.target]) =>
        /\ log' = <<>>
        /\ UNCHANGED <<ctx, added, sortingOrder, active, camera>>

\* C4: render on an inactive layer makes no context call and no render call
\* on any descendant and changes neither the context nor the scene; within a
\* pass no call is made for a node below an inactive layer.
C4_InactiveSkipped ==
    /\ [](\A i \in Idx : Under(log[i].n, last.target) /\ ActiveUpToTarget(log[i].n))
    /\ [][InactiveTargetStep]_vars

\* render was called on an inactive layer that has an active child
C4_Witness ==
    /\ Pass /\ last.target \in Layers /\ ~active[last.target]
    /\ \E c \in Range(added[last.target]) : active[c]

\* ------------------------------------------------------------------------
\* C5
\* ------------------------------------------------------------------------
\* p's children were traversed in the pass
Traversed(p) ==
    Pass /\ ((p = Scene /\ last.target = Scene) \/ (p \in Layers /\ Saved(p)))

\* the children of p whose render began, in the order it began
Visits(p) ==
    LET IsVisit(e) == StartsChildOf(e, p)
        v == SelectSeq(log, IsVisit)
    IN [k \in DOMAIN v |-> v[k].n]

AddedPos(p, c) == CHOOSE k \in DOMAIN added[p] : added[p][k] = c

Before(p, x, y) ==
    \/ sortingOrder[x] < sortingOrder[y]
    \/ sortingOrder[x] = sortingOrder[y] /\ AddedPos(p, x) < AddedPos(p, y)

\* C5: the children of the scene and of every rendered layer whose render
\* begins in a pass are active ones, each rendered once, in ascending
\* sortingOrder, those with equal sortingOrder in the order they were added,
\* none passed over in favour of a later one; in a pass that returns they are
\* all the active children.  Inactive children are left out.
C5_ChildOrder ==
    \A p \in Parents :
        Traversed(p) =>
            LET v == Visits(p)
                due == {c \in Range(added[p]) : active[c]}
            IN /\ \A a, b \in DOMAIN v : a < b => v[a] # v[b]
               /\ Range(v) \subseteq due
               /\ \A a, b \in DOMAIN v : a < b => Before(p, v[a], v[b])
               /\ \A a \in DOMAIN v : \A c \in due \ Range(v) : Before(p, v[a], c)
               /\ Completed => Range(v) = due

\* a layer renders two children of equal sortingOrder and skips an inactive one
C5_Witness ==
    /\ Completed
    /\ \E p \in Layers :
           /\ Saved(p)
           /\ \E x, y, z \in Range(added[p]) :
                  /\ x # y /\ active[x] /\ active[y] /\ ~active[z]
                  /\ sortingOrder[x] = sortingOrder[y]
                  /\ Len(Visits(p)) = 2

\* ------------------------------------------------------------------------
\* C6
\* ------------------------------------------------------------------------
TopLevel == Range(added[Scene])

\* the scenario: BG created by createWorldLayer after the defaults, then
\* given sortingOrder -100, and one scene.render
Scenario ==
    /\ Completed /\ last.target = Scene
    /\ Extra \in TopLevel
    /\ sortingOrder[Extra] = BackOrder
    /\ sortingOrder[World] = WorldOrder
    /\ sortingOrder[UI] = UIOrder
    /\ active[Extra] /\ active[World] /\ active[UI]
    /\ camera[World] = Primary /\ camera[UI] = None

\* C6: in scene.render the subtree of a top-level layer with the smaller
\* sortingOrder is rendered wholly before that of one with the larger, however
\* they were added; in the scenario BG (-100) comes before world (0) before
\* ui (1000), world's children see the primary camera's transform and ui's
\* children the transform the pass was entered with (identity).
C6_LayerOrder ==
    /\ (Pass /\ last.target = Scene) =>
           \A x, y \in TopLevel :
               (active[x] /\ active[y] /\ sortingOrder[x] < sortingOrder[y]) =>
                   \A i, j \in Idx :
                       (Under(log[i].n, x) /\ Under(log[j].n, y)) => i < j
    /\ Scenario =>
           /\ SaveAt(Extra) < SaveAt(World) /\ SaveAt(World) < SaveAt(UI)
           /\ \A i \in Idx :
                  (log[i].op = "draw" /\ ParentOf(log[i].n) = World) =>
                      log[i].t = Compose(last.entry.cur, CameraTransform(Primary))
           /\ \A i \in Idx :
                  (log[i].op = "draw" /\ ParentOf(log[i].n) = UI) =>
                      log[i].t = last.entry.cur

\* the scenario with A in world and B in ui, rendered from the identity
C6_Witness ==
    /\ Scenario
    /\ camera[Extra] = Primary
    /\ last.entry.cur = Identity
    /\ ObjA \in Range(added[World]) /\ ObjB \in Range(added[UI])
    /\ \E i, j \in Idx :
           /\ log[i].op = "draw" /\ log[i].n = ObjA
           /\ log[j].op = "draw" /\ log[j].n = ObjB
           /\ SaveAt(Extra) < i /\ i < j

\* ------------------------------------------------------------------------
\* C7
\* ------------------------------------------------------------------------
\* C7: right after construction the scene's children are exactly world
\* (sortingOrder 0, camera the primary camera) and ui (sortingOrder 1000, no
\* camera); whatever layers are created later, world and ui stay top-level
\* children, each once.
C7_DefaultLayers ==
    /\ last.op = "newScene" =>
           /\ Children(Scene) = <<World, UI>>
           /\ sortingOrder[World] = WorldOrder /\ GetCamera(World) = Primary
           /\ sortingOrder[UI] = UIOrder /\ GetCamera(UI) = None
    /\ \A d \in {World, UI} :
           Cardinality({k \in DOMAIN added[Scene] : added[Scene][k] = d}) = 1
    /\ \A p \in Layers : World \notin Range(added[p]) /\ UI \notin Range(added[p])

\* a layer was created by the scene after the defaults
C7_Witness ==
    /\ last.op = "edit"
    /\ Extra \in TopLevel /\ Len(added[Scene]) = 3
    /\ World \in TopLevel /\ UI \in TopLevel

\* ------------------------------------------------------------------------
\* C8
\* ------------------------------------------------------------------------
SetCameraStep ==
    last'.op = "setCamera" =>
        /\ camera'[last'.n] = last'.value
        /\ \A m \in Layers \ {last'.n} : camera'[m] = camera[m]
        /\ UNCHANGED <<ctx, added, active, sortingOrder>>

\* every applyTransform of the pass is that of the layer's current camera,
\* made right after the layer's save; a layer without camera makes none
AppliesCurrentCamera ==
    /\ \A i \in Idx :
           log[i].op = "apply" =>
               /\ camera[log[i].n] # None
               /\ i > 1 /\ log[i - 1].op = "save" /\ log[i - 1].n = log[i].n
               /\ log[i].t = Compose(log[i - 1].t, CameraTransform(camera[log[i].n]))
    /\ \A i \in Idx :
           (log[i].op = "save" /\ camera[log[i].n] # None) =>
               (i < Len(log) /\ log[i + 1].op = "apply" /\ log[i + 1].n = log[i].n)

\* C8: setting a layer's camera changes the stored camera of that layer and
\* nothing else, the getter returns the value set, and a later render of the
\* layer applies the transform of the camera it then holds, or none.
C8_CameraSetter ==
    /\ [][SetCameraStep]_vars
    /\ []AppliesCurrentCamera

\* world, built with the primary camera, was given the minimap camera and has
\* been rendered with it
C8_Witness ==
    /\ Pass /\ camera[World] = Minimap /\ Saved(World)
    /\ log[SaveAt(World) + 1].t = Compose(last.entry.cur, CameraTransform(Minimap))
    /\ \E i \in Idx : log[i].op = "draw" /\ ParentOf(log[i].n) = World

\* ------------------------------------------------------------------------
\* C9
\* ------------------------------------------------------------------------
\* two renders of the same root in succession, every node behaving in the
\* second as in the first
SecondPassStep ==
    (Pass /\ last'.op = "render" /\ last'.target = last.target
          /\ last'.err = last.err) =>
        /\ log' = log
        /\ ctx' = ctx

\* C9: a render that directly follows a render of the same scene or layer
\* makes the same calls on the same nodes in the same order under the same
\* transforms, and leaves the context as the first left it.
C9_Idempotent == [][SecondPassStep]_vars

\* ------------------------------------------------------------------------
\* C10
\* ------------------------------------------------------------------------
EventsOf(op, n) == {i \in Idx : log[i].op = op /\ log[i].n = n}

\* C10: in a pass that returns, every rendered layer makes one save and one
\* restore; its applyTransform and all calls of its descendants, and only
\* those, lie between the two; the restore brings the depth back to what it
\* was before the save; the depth never falls below that at the start of the
\* pass and is the same at its end.
C10_WellNested ==
    Completed =>
        /\ \A i \in Idx : log[i].d >= Depth(last.entry)
        /\ Depth(ctx) = Depth(last.entry)
        /\ \A n \in Layers :
               (\E i \in Idx : log[i].n = n) =>
                   /\ Cardinality(EventsOf("save", n)) = 1
                   /\ Cardinality(EventsOf("restore", n)) = 1
                   /\ LET s == CHOOSE i \in EventsOf("save", n) : TRUE
                          r == CHOOSE i \in EventsOf("restore", n) : TRUE
                      IN /\ s < r
                         /\ log[r].d = log[s].d - 1
                         /\ \A k \in Idx :
                                (s < k /\ k < r) <=>
                                    (Under(log[k].n, n) /\ k # s /\ k # r)
                         /\ \A k \in Idx :
                                (s < k /\ k < r) => log[k].d >= log[s].d

\* a layer nested in a layer, with a drawn object, inside a scene pass
C10_Witness ==
    /\ Completed /\ last.target = Scene
    /\ Exists(Extra) /\ ParentOf(Extra) # Scene
    /\ \E i \in Idx : log[i].op = "draw" /\ ParentOf(log[i].n) = Extra
    /\ \E i \in Idx : log[i].op = "draw" /\ ParentOf(log[i].n) = ParentOf(Extra)

====
